---- MODULE Spec2Model ----
(***************************************************************************)
(* A model of the brainfuck-rs compiler core: the instruction tree         *)
(* (instruction.rs), the loop optimizer (optimizer.rs) and the program     *)
(* that the code generator emits (code_gen.rs), executed block by block.   *)
(***************************************************************************)
EXTENDS Integers, Sequences, FiniteSets, TLC

\* ------------------------------------------------------------------ bounds

\* longest loop body enumerated exhaustively over CoreAtoms
MaxLen == 4
\* longest loop body enumerated over atoms and nested loops
MaxNest == 2
\* largest MoveRight/MoveLeft amount of a one-instruction body
MaxMove == 2
\* longest loop body of a program that is run, enumerated over RunAtoms
MaxRunLen == 4
\* largest value the setup of a run stores in the current cell
MaxValue == 2
\* farthest cell the setup of a run moves to
MaxStart == 1
\* instructions one run of the generated program may execute
MaxSteps == 40
\* width in bits of the model's size_t
SizeBits == 16
\* instructions one run of a program of LongPrograms may execute
MaxLongSteps == 2000
\* longest source text enumerated exhaustively over Alphabet
MaxSourceLen == 4
\* cells that the source texts of ScanSources fill
MaxScanCells == 4

\* ------------------------------------------------------------ instruction.rs

\* u8 arithmetic (Wrapping<u8>, LLVM i8)
Byte == 256

\* Addition that stops at 255 instead of wrapping.
SaturatingAdd(a, b) == IF a + b >= Byte THEN Byte - 1 ELSE a + b

WrapAdd(a, b) == (a + b) % Byte

WrapSub(a, b) == (a - b + Byte) % Byte

WrapMul(a, b) == (a * b) % Byte

\* One shape for all thirteen variants: fields a variant does not carry are
\* 0 and << >>.
Instr(op, amount, instructions) ==
    [op |-> op, amount |-> amount, instructions |-> instructions]

MoveRight(n) == Instr("MoveRight", n, << >>)

MoveLeft(n) == Instr("MoveLeft", n, << >>)

Increment(n) == Instr("Increment", n, << >>)

Decrement(n) == Instr("Decrement", n, << >>)

Output == Instr("Output", 0, << >>)

Input == Instr("Input", 0, << >>)

Loop(instructions) == Instr("Loop", 0, instructions)

MoveRightUntilZero(n) == Instr("MoveRightUntilZero", n, << >>)

MoveLeftUntilZero(n) == Instr("MoveLeftUntilZero", n, << >>)

SetToZero == Instr("SetToZero", 0, << >>)

WithMultiplier(instructions) == Instr("WithMultiplier", 0, instructions)

MoveValueRight(n) == Instr("MoveValueRight", n, << >>)

MoveValueLeft(n) == Instr("MoveValueLeft", n, << >>)

\* --------------------------------------------------------------------- tok.rs

\* TokenType::from_char; "None" for a character that is no command.
from_char(c) ==
    CASE c = ">" -> "MoveRight"
      [] c = "<" -> "MoveLeft"
      [] c = "+" -> "Increment"
      [] c = "-" -> "Decrement"
      [] c = "." -> "Output"
      [] c = "," -> "Input"
      [] c = "[" -> "LoopStart"
      [] c = "]" -> "LoopEnd"
      [] OTHER -> "None"

\* SourceLoc of the character at position p of a text: line starts at 1 and
\* grows by one with each '\n' passed; col starts at 1, is set back to 1 by a
\* '\n' and grows by one with every other character, commands included.
SourceLoc(input, p) ==
    LET newlines == {q \in 1..(p - 1) : input[q] = "\n"}
        last == IF newlines = {}
                THEN 0
                ELSE CHOOSE q \in newlines : \A r \in newlines : r <= q
    IN  [line |-> 1 + Cardinality(newlines), col |-> p - last]

\* The tokens the Tokenizer yields for a text, in order, each with its type
\* and its location: characters that are no command are skipped.
Tokenizer(input) ==
    LET IsCommand(p) == from_char(input[p]) # "None"
        positions == SelectSeq([p \in 1..Len(input) |-> p], IsCommand)
    IN  [i \in 1..Len(positions) |->
            [token_type |-> from_char(input[positions[i]]),
             loc |-> SourceLoc(input, positions[i])]]

\* The token_type fields of a sequence of tokens.
TokenTypes(tokens) == [i \in 1..Len(tokens) |-> tokens[i].token_type]

\* ------------------------------------------------------------------ parser.rs

\* How many tokens the loop around next_if consumes: the tokens at the front
\* that are of the expected type.
Consumed(tokenizer, expected) ==
    LET others == {i \in 1..Len(tokenizer) : tokenizer[i].token_type # expected}
    IN  IF others = {}
        THEN Len(tokenizer)
        ELSE (CHOOSE i \in others : \A j \in others : i <= j) - 1

Rest(tokenizer, n) == SubSeq(tokenizer, n + 1, Len(tokenizer))

\* parse_move, called after the first token of the run has been taken.
parse_move(right, tokenizer) ==
    LET expected == IF right THEN "MoveRight" ELSE "MoveLeft"
        amount == 1 + Consumed(tokenizer, expected)
    IN  [instruction |-> IF right THEN MoveRight(amount) ELSE MoveLeft(amount),
         tokenizer |-> Rest(tokenizer, amount - 1)]

\* parse_change_cell with the amount counted in an integer that does not wrap.
parse_change_cell_wide(increment, tokenizer) ==
    LET expected == IF increment THEN "Increment" ELSE "Decrement"
        taken == Consumed(tokenizer, expected)
    IN  [instruction |-> IF increment THEN Increment(1 + taken) ELSE Decrement(1 + taken),
         tokenizer |-> Rest(tokenizer, taken)]

\* parse_change_cell: the amount is a Wrapping<u8> that starts at 1.
parse_change_cell(increment, tokenizer) ==
    LET expected == IF increment THEN "Increment" ELSE "Decrement"
        taken == Consumed(tokenizer, expected)
        amount == (1 + taken) % Byte
    IN  [instruction |-> IF increment THEN Increment(amount) ELSE Decrement(amount),
         tokenizer |-> Rest(tokenizer, taken)]

\* ParseError, with the location it carries.
UnexpectedLoopEnd(loc) == [kind |-> "UnexpectedLoopEnd", loc |-> loc]

ExpectedLoopEnd(loc) == [kind |-> "ExpectedLoopEnd", loc |-> loc]

\* No error, and the loop_start of a parser outside any loop.
None == [kind |-> "None", loc |-> [line |-> 0, col |-> 0]]

RECURSIVE next(_, _)
RECURSIVE collect(_, _)

\* detail::Parser::next: item is "Ok", "Err" or "None"; loop_start is None
\* outside any loop and otherwise holds the location of the '[' that opened
\* the loop in its loc field.
next(tokenizer, loop_start) ==
    IF tokenizer = << >>
    THEN IF loop_start # None
         THEN [item |-> "Err", instruction |-> SetToZero, tokenizer |-> tokenizer,
               error |-> ExpectedLoopEnd(loop_start.loc)]
         ELSE [item |-> "None", instruction |-> SetToZero, tokenizer |-> tokenizer,
               error |-> None]
    ELSE LET token == Head(tokenizer)
             after == Tail(tokenizer)
             Ok(parsed) == [item |-> "Ok", instruction |-> parsed.instruction,
                            tokenizer |-> parsed.tokenizer, error |-> None]
         IN  CASE token.token_type = "MoveRight" -> Ok(parse_move(TRUE, after))
               [] token.token_type = "MoveLeft" -> Ok(parse_move(FALSE, after))
               [] token.token_type = "Increment" -> Ok(parse_change_cell(TRUE, after))
               [] token.token_type = "Decrement" -> Ok(parse_change_cell(FALSE, after))
               [] token.token_type = "Output" ->
                     Ok([instruction |-> Output, tokenizer |-> after])
               [] token.token_type = "Input" ->
                     Ok([instruction |-> Input, tokenizer |-> after])
               [] token.token_type = "LoopStart" ->
                     LET loop_instructions ==
                             collect(after, [kind |-> "Some", loc |-> token.loc])
                     IN  [item |-> IF loop_instructions.ok THEN "Ok" ELSE "Err",
                          instruction |-> Loop(loop_instructions.instructions),
                          tokenizer |-> loop_instructions.tokenizer,
                          error |-> loop_instructions.error]
               [] token.token_type = "LoopEnd" ->
                     IF loop_start # None
                     THEN [item |-> "None", instruction |-> SetToZero,
                           tokenizer |-> after, error |-> None]
                     ELSE [item |-> "Err", instruction |-> SetToZero,
                           tokenizer |-> after,
                           error |-> UnexpectedLoopEnd(token.loc)]

\* collect over a parser: the instructions up to the first None, or the first
\* error, which leaves no instructions.
collect(tokenizer, loop_start) ==
    LET first == next(tokenizer, loop_start)
    IN  CASE first.item = "None" ->
                [ok |-> TRUE, instructions |-> << >>,
                 tokenizer |-> first.tokenizer, error |-> None]
          [] first.item = "Err" ->
                [ok |-> FALSE, instructions |-> << >>,
                 tokenizer |-> first.tokenizer, error |-> first.error]
          [] OTHER ->
                LET others == collect(first.tokenizer, loop_start)
                IN  [ok |-> others.ok,
                     instructions |-> IF others.ok
                                      THEN <<first.instruction>> \o others.instructions
                                      ELSE << >>,
                     tokenizer |-> others.tokenizer,
                     error |-> others.error]

\* Parser::new(tokenizer).collect(): each item comes from a detail::Parser
\* outside any loop, and an error is unwrapped into a panic.
Parser(input) == collect(Tokenizer(input), None)

\* --------------------------------------------------------------- optimizer.rs

\* The state of the walk in unroll_loop: current_relative_cell, the
\* relative_cell_operations map (offset -> <<increment, amount>>) and whether
\* the closure has returned true so far.
WalkStart == [cell |-> 0, ops |-> << >>, ok |-> TRUE]

\* Entry::Occupied / Entry::Vacant for one Increment (inc = TRUE) or
\* Decrement (inc = FALSE): the first instruction at an offset fixes the
\* entry's direction flag, later ones add to or subtract from its amount.
Record(ops, cell, inc, amount) ==
    IF cell \in DOMAIN ops
    THEN [ops EXCEPT ![cell] =
            <<ops[cell][1],
              IF ops[cell][1] = inc THEN WrapAdd(ops[cell][2], amount)
                                    ELSE WrapSub(ops[cell][2], amount)>>]
    ELSE [c \in DOMAIN ops \cup {cell} |->
            IF c = cell THEN <<inc, amount>> ELSE ops[c]]

WalkStep(st, instruction) ==
    CASE instruction.op = "MoveRight" ->
            [st EXCEPT !.cell = st.cell + instruction.amount]
      [] instruction.op = "MoveLeft" ->
            [st EXCEPT !.cell = st.cell - instruction.amount]
      [] instruction.op = "Increment" ->
            [st EXCEPT !.ops = Record(st.ops, st.cell, TRUE, instruction.amount)]
      [] instruction.op = "Decrement" ->
            [st EXCEPT !.ops = Record(st.ops, st.cell, FALSE, instruction.amount)]
      [] OTHER -> [st EXCEPT !.ok = FALSE]

\* Iterator::all: stops at the first instruction the closure rejects.
RECURSIVE Walk(_, _)
Walk(instructions, st) ==
    IF instructions = << >> \/ ~st.ok
    THEN st
    ELSE Walk(Tail(instructions), WalkStep(st, Head(instructions)))

\* Every order in which a HashMap with these keys may be iterated.
IterationOrders(keys) ==
    {f \in [1..Cardinality(keys) -> keys] :
        \A i, j \in 1..Cardinality(keys) : f[i] = f[j] => i = j}

\* The flat_map closure without the test for an amount of 0: every entry
\* gives its move and its change.
RECURSIVE EmitEveryEntry(_, _, _, _)
EmitEveryEntry(ops, order, i, current) ==
    IF i > Len(order)
    THEN << >>
    ELSE LET relative_cell == order[i]
             movement == relative_cell - current
         IN  <<IF movement > 0 THEN MoveRight(movement) ELSE MoveLeft(-movement),
               IF ops[relative_cell][1] THEN Increment(ops[relative_cell][2])
                                        ELSE Decrement(ops[relative_cell][2])>>
                 \o (IF i = Len(order)
                     THEN <<IF relative_cell > 0 THEN MoveLeft(relative_cell)
                                                 ELSE MoveRight(-relative_cell)>>
                     ELSE << >>)
                 \o EmitEveryEntry(ops, order, i + 1, relative_cell)

\* The flat_map closure of unroll_loop over the entries from position i on;
\* current is current_relative_cell as the closure has left it.
RECURSIVE Emit(_, _, _, _)
Emit(ops, order, i, current) ==
    IF i > Len(order)
    THEN << >>
    ELSE LET relative_cell == order[i]
             increment == ops[relative_cell][1]
             amount == ops[relative_cell][2]
             movement == relative_cell - current
             movement_instruction ==
                 IF movement > 0 THEN MoveRight(movement) ELSE MoveLeft(-movement)
             increment_instruction ==
                 IF increment THEN Increment(amount) ELSE Decrement(amount)
             additional_instructions ==
                 IF i = Len(order)
                 THEN <<IF relative_cell > 0 THEN MoveLeft(relative_cell)
                                             ELSE MoveRight(-relative_cell)>>
                 ELSE << >>
         IN  IF amount = 0
             THEN Emit(ops, order, i + 1, current)
             ELSE <<movement_instruction, increment_instruction>>
                      \o additional_instructions
                      \o Emit(ops, order, i + 1, relative_cell)

\* unroll_loop after the body has been optimized: the set of instructions it
\* may return, one per iteration order of relative_cell_operations.
Unrolled(instructions) ==
    LET st == Walk(instructions, WalkStart)
        rest == [c \in DOMAIN st.ops \ {0} |-> st.ops[c]]
    IN  IF st.ok /\ st.cell = 0 /\ 0 \in DOMAIN st.ops /\ st.ops[0] = <<FALSE, 1>>
        THEN IF DOMAIN rest = {}
             THEN {SetToZero}
             ELSE IF Cardinality(DOMAIN rest) = 1
                     /\ (\E c \in DOMAIN rest : rest[c] = <<TRUE, 1>>)
             THEN LET relative_cell == CHOOSE c \in DOMAIN rest : TRUE
                  IN  {IF relative_cell > 0 THEN MoveValueRight(relative_cell)
                                            ELSE MoveValueLeft(-relative_cell)}
             ELSE {WithMultiplier(Emit(rest, order, 1, 0)) :
                      order \in IterationOrders(DOMAIN rest)}
        ELSE {Loop(instructions)}

\* Substitute with a loop that is the only instruction of a loop's body taken
\* out of its wrapper, and so left for a later pass to rewrite.
SubstituteFlattening(instructions) ==
    LET only == instructions[1]
    IN  CASE only.op = "MoveRight" -> MoveRightUntilZero(only.amount)
          [] only.op = "MoveLeft" -> MoveLeftUntilZero(only.amount)
          [] only.op \in {"Increment", "Decrement"} /\ only.amount = 1 -> SetToZero
          [] only.op = "Loop" -> only
          [] OTHER -> Loop(instructions)

\* Substitute with the amount of the Increment or Decrement not looked at.
SubstituteAnyAmount(instructions) ==
    LET only == instructions[1]
    IN  CASE only.op = "MoveRight" -> MoveRightUntilZero(only.amount)
          [] only.op = "MoveLeft" -> MoveLeftUntilZero(only.amount)
          [] only.op \in {"Increment", "Decrement"} -> SetToZero
          [] OTHER -> Loop(instructions)

\* Substitute with the step of a scan not taken from the move.
SubstituteUnitStep(instructions) ==
    LET only == instructions[1]
    IN  CASE only.op = "MoveRight" -> MoveRightUntilZero(1)
          [] only.op = "MoveLeft" -> MoveLeftUntilZero(1)
          [] only.op \in {"Increment", "Decrement"} /\ only.amount = 1 -> SetToZero
          [] OTHER -> Loop(instructions)

\* The single-instruction table of optimize_loop.
Substitute(instructions) ==
    LET only == instructions[1]
    IN  CASE only.op = "MoveRight" -> MoveRightUntilZero(only.amount)
          [] only.op = "MoveLeft" -> MoveLeftUntilZero(only.amount)
          [] only.op \in {"Increment", "Decrement"} /\ only.amount = 1 -> SetToZero
          [] OTHER -> Loop(instructions)

RECURSIVE optimize(_)
RECURSIVE optimize_loop(_)
RECURSIVE unroll_loop(_)

\* Optimizer::next over a whole sequence (collect): the set of sequences the
\* pass may produce.
optimize(instructions) ==
    IF instructions = << >>
    THEN {<< >>}
    ELSE LET instruction == Head(instructions)
             first == IF instruction.op = "Loop"
                      THEN optimize_loop(instruction.instructions)
                      ELSE {instruction}
         IN  {<<f>> \o r : f \in first, r \in optimize(Tail(instructions))}

optimize_loop(instructions) ==
    IF Len(instructions) = 1
    THEN {Substitute(instructions)}
    ELSE unroll_loop(instructions)

unroll_loop(instructions) ==
    UNION {Unrolled(body) : body \in optimize(instructions)}

\* ---------------------------------------------------------------- code_gen.rs

\* What generate_instruction emits for one instruction: the instruction and
\* the value has_multiplier had when it was lowered.
Emitted(instruction, has_multiplier) ==
    [op |-> instruction.op, amount |-> instruction.amount,
     instructions |-> instruction.instructions, has_multiplier |-> has_multiplier]

SetMultiplier == Instr("SetMultiplier", 0, << >>)

ResetMultiplierAndSetToZero == Instr("ResetMultiplierAndSetToZero", 0, << >>)

\* A WithMultiplier node as the three steps the lowering knows: load the scale
\* register, the body, zero the origin and drop the scale.
Expand(instruction) ==
    <<SetMultiplier>> \o instruction.instructions \o <<ResetMultiplierAndSetToZero>>

RECURSIVE generate_instruction(_, _)
RECURSIVE generate_from(_, _)

\* generate_instructions with has_multiplier starting as true.
generate_instructions_scaled(instructions) == generate_from(instructions, TRUE)

\* generate_instructions: every sequence starts with has_multiplier = false.
generate_instructions(instructions) == generate_from(instructions, FALSE)

\* The for loop of generate_instructions from some instruction on, with the
\* has_multiplier the instructions before it have left.
generate_from(instructions, has_multiplier) ==
    IF instructions = << >>
    THEN << >>
    ELSE LET g == generate_instruction(Head(instructions), has_multiplier)
         IN  g.code \o generate_from(Tail(instructions), g.has_multiplier)

\* generate_instruction: the code emitted and has_multiplier afterwards.
generate_instruction(instruction, has_multiplier) ==
    CASE instruction.op = "Loop" ->
            [code |-> <<Emitted(Loop(generate_instructions(instruction.instructions)),
                                has_multiplier)>>,
             has_multiplier |-> has_multiplier]
      [] instruction.op = "WithMultiplier" ->
            [code |-> generate_from(Expand(instruction), has_multiplier),
             has_multiplier |-> FALSE]
      [] instruction.op = "SetMultiplier" ->
            [code |-> <<Emitted(instruction, has_multiplier)>>, has_multiplier |-> TRUE]
      [] instruction.op = "ResetMultiplierAndSetToZero" ->
            [code |-> <<Emitted(instruction, has_multiplier)>>, has_multiplier |-> FALSE]
      [] OTHER ->
            [code |-> <<Emitted(instruction, has_multiplier)>>,
             has_multiplier |-> has_multiplier]

\* size_t arithmetic
Word == 2 ^ SizeBits

\* Negative as an unsigned comparison (IntPredicate::ULT), which no size_t
\* satisfies.
NegativeUnsigned(w) == w < 0

\* Negative as IntPredicate::SLE against zero.
NegativeOrZero(w) == w = 0 \/ w >= Word \div 2

\* IntPredicate::SLT against zero: the sign bit of a size_t
Negative(w) == w >= Word \div 2

\* calloc(256, 1)
InitialLength == 256

NULL == 0

ErrorString == "Error: Cannot move pointer to negative cell!\n"

\* The tape buffer keeps only its non-zero bytes: calloc and growth hand out
\* zeroed cells.
CellAt(tape, i) == IF i \in DOMAIN tape THEN tape[i] ELSE 0

Store(tape, i, v) ==
    [j \in (DOMAIN tape \cup {i}) \ (IF v = 0 THEN {i} ELSE {}) |->
        IF j = i THEN v ELSE tape[j]]

\* malloc/calloc/realloc: some address that is not live
Fresh(heap) == CHOOSE p \in 1..(Cardinality(heap) + 1) : p \notin heap

\* ---------------------------------------------------------- stdlib/helpers.c

\* The length of the tape once index i must be valid.
Grown(cells_length, i) == IF i < cells_length THEN cells_length ELSE i + 1

\* moveRightUntilZero: the index of the first zero cell at current_cell,
\* current_cell + step_size, ...
RECURSIVE ScanRight(_, _, _)
ScanRight(tape, current_cell, step_size) ==
    IF CellAt(tape, current_cell) = 0
    THEN current_cell
    ELSE ScanRight(tape, current_cell + step_size, step_size)

\* moveLeftUntilZero: the index it stops at and whether it stopped because the
\* next step would pass cell 0.
RECURSIVE ScanLeft(_, _, _)
ScanLeft(tape, current_cell, step_size) ==
    IF CellAt(tape, current_cell) = 0
    THEN [current_cell |-> current_cell, failed |-> FALSE]
    ELSE IF current_cell < step_size
    THEN [current_cell |-> current_cell, failed |-> TRUE]
    ELSE ScanLeft(tape, current_cell - step_size, step_size)

\* moveValueRight / moveValueLeft: add the current cell to the target, zero it.
MoveValue(tape, current_cell, target) ==
    Store(Store(tape, target,
                WrapAdd(CellAt(tape, target), CellAt(tape, current_cell))),
          current_cell, 0)

\* ------------------------------------------------------------------ inputs

\* What parse_move and parse_change_cell can produce: runs of one token are
\* merged, so no two neighbours are the same kind of move or change.
Mergeable == {"MoveRight", "MoveLeft", "Increment", "Decrement"}

ParserOutput(instructions) ==
    \A i \in 1..(Len(instructions) - 1) :
        instructions[i].op \in Mergeable
            => instructions[i + 1].op # instructions[i].op

RECURSIVE SeqsUpTo(_, _)
SeqsUpTo(S, n) ==
    IF n = 0
    THEN {<< >>}
    ELSE LET shorter == SeqsUpTo(S, n - 1)
         IN  shorter \cup {Append(s, x) : s \in {t \in shorter : Len(t) = n - 1}, x \in S}

ByteAmounts == {0, 1, 2, 3, 254, 255}

CoreAtoms ==
    {MoveRight(1), MoveLeft(1), Increment(1), Decrement(1), Increment(2),
     Decrement(2), Increment(255), Decrement(255), Output}

SingleAtoms ==
    {MoveRight(n) : n \in 1..MaxMove} \cup {MoveLeft(n) : n \in 1..MaxMove}
        \cup {Increment(a) : a \in ByteAmounts} \cup {Decrement(a) : a \in ByteAmounts}
        \cup {Output, Input}

\* Bodies of the loops that are nested in an enumerated body.
InnerBodies ==
    {<< >>, <<Decrement(1)>>, <<Increment(1)>>, <<MoveRight(1)>>, <<MoveLeft(2)>>,
     <<Output>>, <<Decrement(2)>>, <<Decrement(1), Output>>, <<Increment(1), Decrement(2)>>,
     <<Decrement(1), MoveRight(1), Increment(1), MoveLeft(1)>>,
     <<Decrement(1), MoveRight(1), Increment(2), MoveLeft(1)>>,
     <<Loop(<<Decrement(1)>>)>>, <<Loop(<<Decrement(1)>>), MoveRight(1)>>}

NestAtoms ==
    {MoveRight(1), Decrement(1), Increment(2)} \cup {Loop(b) : b \in InnerBodies}

\* Loop bodies that need more instructions than MaxLen: two or more touched
\* offsets, offsets whose deltas cancel, the idioms the specification names.
Idioms ==
    {<<Decrement(1), MoveRight(1), Increment(2), MoveRight(1), Increment(3), MoveLeft(2)>>,
     <<Decrement(1), MoveRight(1), Increment(2), MoveRight(1), Increment(1),
       Decrement(1), MoveLeft(2)>>,
     <<Decrement(1), MoveRight(1), Increment(1), Decrement(1), MoveRight(1),
       Increment(2), MoveLeft(2)>>,
     <<Decrement(1), MoveLeft(1), Increment(2), MoveRight(2), Decrement(3), MoveLeft(1)>>,
     <<MoveLeft(2), Increment(1), MoveRight(1), Increment(0), MoveRight(1), Decrement(1)>>,
     <<Decrement(1), MoveRight(1), Increment(1), Decrement(1), MoveLeft(1)>>,
     <<MoveRight(1), Decrement(1), Increment(2), MoveLeft(1), Decrement(1)>>,
     <<Decrement(1), MoveRight(2), Increment(1), MoveLeft(1), Increment(1),
       MoveLeft(2), Decrement(2), MoveRight(1)>>}

LoopBodies ==
    {b \in SeqsUpTo(CoreAtoms, MaxLen) \cup SeqsUpTo(NestAtoms, MaxNest) \cup Idioms
            \cup {<<a>> : a \in SingleAtoms} :
        ParserOutput(b)}

\* What is run: a setup that moves to cell start, stores neighbour in the cell
\* to the right of it and value in it, and then one loop.
Setup(start, neighbour, value) ==
    (IF neighbour > 0
     THEN <<MoveRight(start + 1), Increment(neighbour), MoveLeft(1)>>
     ELSE IF start > 0 THEN <<MoveRight(start)>> ELSE << >>)
        \o (IF value > 0 THEN <<Increment(value)>> ELSE << >>)

Setups ==
    {Setup(start, neighbour, value) :
        start \in 0..MaxStart, neighbour \in {0, Byte - 1}, value \in 0..MaxValue}

RunAtoms == {MoveRight(1), MoveLeft(1), Increment(1), Decrement(1), Output}

RunIdioms ==
    {<<Decrement(1), MoveRight(1), Increment(2), MoveLeft(1)>>,
     <<Decrement(1), MoveLeft(1), Increment(255), MoveRight(1)>>,
     <<Decrement(1), MoveRight(1), Increment(2), MoveRight(1), Increment(3), MoveLeft(2)>>,
     <<Decrement(1), MoveRight(1), Increment(2), MoveRight(1), Increment(1),
       Decrement(1), MoveLeft(2)>>,
     <<MoveRight(2)>>, <<MoveLeft(2)>>, <<Increment(255)>>, <<Input>>,
     <<Input, Output, MoveLeft(1)>>, <<Decrement(1), Input, MoveLeft(1)>>,
     <<Loop(<<Decrement(1)>>), MoveRight(1)>>}

RunBodies == {b \in SeqsUpTo(RunAtoms, MaxRunLen) \cup RunIdioms : ParserOutput(b)}

\* Byte values at and around the points where u8 arithmetic wraps.
ByteSamples == {0, 1, 86, 128, Byte - 1}

\* The loop of the specification's WithMultiplier example, and one whose
\* other offset is decremented.
ScaleBody ==
    <<Decrement(1), MoveRight(1), Increment(2), MoveRight(1), Increment(3), MoveLeft(2)>>

ScaleBodies ==
    {ScaleBody, <<Decrement(1), MoveRight(1), Decrement(2), MoveLeft(1)>>,
     <<MoveRight(2), Increment(3), MoveLeft(1), Increment(2), MoveLeft(1), Decrement(1)>>}

ScalePrograms ==
    {Setup(start, neighbour, value) \o <<Loop(b)>> :
        start \in 0..MaxStart, neighbour \in {0, Byte - 1}, value \in ByteSamples,
        b \in ScaleBodies}

\* A setup that stores neighbour in cell 0 and value in cell 1, and stays there.
SetupLeft(neighbour, value) ==
    (IF neighbour > 0 THEN <<Increment(neighbour)>> ELSE << >>)
        \o <<MoveRight(1)>>
        \o (IF value > 0 THEN <<Increment(value)>> ELSE << >>)

\* Loops that each pass take 1 from the current cell and add 1 to the cell on
\* its right, and the same towards the left.
MoveRightBodies ==
    {<<Decrement(1), MoveRight(1), Increment(1), MoveLeft(1)>>,
     <<MoveRight(1), Increment(1), MoveLeft(1), Decrement(1)>>}

MoveLeftBodies ==
    {<<Decrement(1), MoveLeft(1), Increment(1), MoveRight(1)>>,
     <<MoveLeft(1), Increment(1), MoveRight(1), Decrement(1)>>}

MoveValuePrograms ==
    {Setup(start, neighbour, value) \o <<Loop(b)>> :
        start \in 0..MaxStart, neighbour \in ByteSamples, value \in ByteSamples,
        b \in MoveRightBodies}
      \cup {SetupLeft(neighbour, value) \o <<Loop(b)>> :
                neighbour \in ByteSamples, value \in ByteSamples, b \in MoveLeftBodies}

\* The two loops that zero a cell, entered with every byte value, the cell on
\* the right holding 255.
ZeroingLoops == {Loop(<<Decrement(1)>>), Loop(<<Increment(1)>>)}

ZeroingPrograms ==
    {Setup(0, Byte - 1, value) \o <<l>> : value \in 0..(Byte - 1), l \in ZeroingLoops}

\* Programs whose unoptimized run takes a number of steps proportional to a
\* byte value.
LongPrograms == ScalePrograms \cup MoveValuePrograms \cup ZeroingPrograms

\* Programs in which changes follow the end of a WithMultiplier region: as
\* siblings of the loop, as siblings inside an enclosing loop's body, after a
\* second region.
ScopePrograms ==
    LET region == Loop(<<Decrement(1), MoveRight(1), Increment(2), MoveLeft(1)>>)
    IN  {<<Increment(2), region, Increment(1), MoveRight(1), Decrement(1), Output>>,
         <<Increment(2), Loop(<<region, MoveRight(1), Decrement(4)>>), Output>>,
         <<Increment(3), region, MoveRight(1), region, MoveRight(1), Decrement(1), Output>>}

\* Programs that move, scan or add past the end of the initial tape.
GrowthPrograms ==
    {<<MoveRight(InitialLength - 1), Increment(1), MoveRight(1), Increment(2), Output,
       MoveRight(InitialLength), Decrement(1), Output>>,
     <<Increment(1), Loop(<<MoveRight(InitialLength)>>), Increment(3), Output>>,
     <<Increment(2),
       Loop(<<Decrement(1), MoveRight(InitialLength), Increment(1),
              MoveLeft(InitialLength)>>),
       MoveRight(InitialLength), Output>>}

\* Programs that move right to an index and then left by an amount, both
\* taken at the ends of the non-negative half of the size_t range.
HalfWord == Word \div 2

MovePrograms ==
    {(IF i > 0 THEN <<MoveRight(i)>> ELSE << >>) \o <<MoveLeft(n), Output>> :
        i \in {0, 1, 2, HalfWord - 2, HalfWord - 1}, n \in {1, 2, HalfWord - 1}}

Repeat(c, n) == [i \in 1..n |-> c]

\* The text that stores pattern[c] in cell c - 1 for the cells from c on and
\* ends at the last of them.
RECURSIVE FillText(_, _)
FillText(pattern, c) ==
    (IF pattern[c] = 1 THEN <<"+">> ELSE << >>)
        \o (IF c = Len(pattern) THEN << >> ELSE <<">">> \o FillText(pattern, c + 1))

\* Source texts that fill the first MaxScanCells cells with zeros and ones,
\* go back to one of them and scan from there, to the right or to the left.
ScanSources ==
    {FillText(pattern, 1) \o Repeat("<", MaxScanCells - 1 - start)
            \o <<"[">> \o Repeat(direction, n) \o <<"]">> :
        pattern \in [1..MaxScanCells -> {0, 1}], start \in 0..(MaxScanCells - 1),
        direction \in {">", "<"}, n \in 1..MaxMove}

ScanPrograms == {Parser(text).instructions : text \in ScanSources}

Programs ==
    {setup \o <<Loop(b)>> : setup \in Setups, b \in RunBodies} \cup LongPrograms
        \cup ScopePrograms \cup GrowthPrograms \cup MovePrograms \cup ScanPrograms

\* The bytes waiting on standard input.
StdinBytes == <<3, 0>>

\* Source texts: every text of up to MaxSourceLen characters of Alphabet, runs
\* of a command around the length at which a u8 wraps, and texts that reach
\* each instruction of the generated program.
Alphabet == {">", "+", "-", ".", "[", "]", " "}

RunLengths == {Byte - 1, Byte, Byte + 1, 2 * Byte + 3}

Sources ==
    SeqsUpTo(Alphabet, MaxSourceLen)
        \cup {Repeat(c, n) \o <<".">> : c \in {"+", "-", ">"}, n \in RunLengths}
        \cup {Repeat("+", Byte) \o <<" ">> \o Repeat("+", 2) \o <<"-", ".">>,
              <<"+", "+", "+", ".">>,
              <<"+", "\n", "+", "x", "+", ".", ".">>,
              <<">", ">", "+", "<", "<", "<", ".">>,
              <<",", ".", ",", ",", ".">>,
              <<"+", "[", ">", "]", "+", ".">>,
              <<">", ">", "+", "[", "<", "<", "]", ".">>,
              <<">", "+", "[", "<", "]">>,
              <<"+", "+", "[", "-", ">", "+", "+", "<", "]", ">", ".">>,
              <<"+", "+", "[", "-", ">", "+", "<", "]", ">", ".">>,
              <<">", "+", "+", "[", "-", "<", "+", ">", "]", "<", ".">>,
              <<"[", "-", "<", "+", ">", "]">>,
              <<"+", "[", "[", "-", "]", "]", ".">>,
              <<"+", "[", "-", "[", ".", "]">>,
              <<"+", "\n", " ", "[", "-", "\n", "[", ">", "]", "<">>,
              <<"[", "]", "\n", "\n", "x", "+", "]", "[">>,
              <<"[", "[", "\n", "[", "]", "+">>,
              <<"x", "[", "-", "]", "]", "]">>}

\* ------------------------------------------------------------------- state

VARIABLES
    source,         \* the text the tokenizer has still to read
    program,        \* the parser's output, Vec<Instruction>
    optimized,      \* what one pass of Optimizer collects from it
    reoptimized,    \* what a second pass collects from optimized
    phase,          \* "source", "panicked"; "parsed", "optimized", "reoptimized";
                    \* "plain", "opt" while running
    panic,          \* the ParseError the unwrap in Parser::next panicked with
    code,           \* the emitted instructions still to execute, innermost first
    block,          \* "idle", "running", "error", "return", "exited"
    predecessor,    \* the block the return block was entered from
    cells,          \* the pointer in cells_alloca
    tape,           \* the bytes of the buffer it points to
    cells_length,
    current_cell,
    input_buffer,   \* the pointer in input_buffer_alloca
    multiplier,
    heap,           \* the addresses that are allocated and not freed
    freed,          \* the pointers main has passed to free, in order
    stdin,
    stdout,
    stderr,
    exit_code,
    steps,          \* instructions executed by this run
    plain           \* the final state of the unoptimized run

compiler == <<source, program, optimized, reoptimized, phase, panic>>

memory == <<cells, tape, cells_length, current_cell, input_buffer, multiplier, heap>>

streams == <<stdin, stdout, stderr>>

machine == <<code, block, predecessor, memory, freed, streams, exit_code, steps, plain>>

vars == <<compiler, machine>>

Uninitialized == -1

\* Nothing has been compiled or run.
Idle ==
    /\ code = << >>
    /\ block = "idle"
    /\ predecessor = "none"
    /\ cells = NULL
    /\ tape = << >>
    /\ cells_length = 0
    /\ current_cell = 0
    /\ input_buffer = NULL
    /\ multiplier = Uninitialized
    /\ heap = {}
    /\ freed = << >>
    /\ stdin = StdinBytes
    /\ stdout = << >>
    /\ stderr = << >>
    /\ exit_code = Uninitialized
    /\ steps = 0
    /\ plain = << >>

\* ------------------------------------------------------- the optimizer alone

InitOpt ==
    /\ source = << >>
    /\ panic = None
    /\ program \in {<<Loop(b)>> : b \in LoopBodies}
    /\ optimized = << >>
    /\ reoptimized = << >>
    /\ phase = "parsed"
    /\ Idle

\* Optimizer::new(parser).collect()
Optimize ==
    /\ phase = "parsed"
    /\ \E q \in optimize(program) : optimized' = q
    /\ phase' = "optimized"
    /\ UNCHANGED <<source, panic, program, reoptimized, machine>>

\* a second pass over the first pass's output
Reoptimize ==
    /\ phase = "optimized"
    /\ \E q \in optimize(optimized) : reoptimized' = q
    /\ phase' = "reoptimized"
    /\ UNCHANGED <<source, panic, program, optimized, machine>>

NextOpt == Optimize \/ Reoptimize

SpecOpt == InitOpt /\ [][NextOpt]_vars

\* ------------------------------------------------- the generated program, run

Init ==
    /\ source = << >>
    /\ panic = None
    /\ program \in Programs
    /\ optimized = << >>
    /\ reoptimized = << >>
    /\ phase = "parsed"
    /\ Idle

\* The entry block of main for the given instructions: calloc the tape, store
\* the four allocas, then the lowered instructions.
Enter(instructions) ==
    /\ code' = generate_instructions(instructions)
    /\ block' = "running"
    /\ predecessor' = "none"
    /\ cells' = Fresh({})
    /\ heap' = {Fresh({})}
    /\ tape' = << >>
    /\ cells_length' = InitialLength
    /\ current_cell' = 0
    /\ input_buffer' = NULL
    /\ multiplier' = Uninitialized
    /\ freed' = << >>
    /\ stdin' = StdinBytes
    /\ stdout' = << >>
    /\ stderr' = << >>
    /\ exit_code' = Uninitialized
    /\ steps' = 0

\* main without -O: the parser's output is compiled and run.
RunPlain ==
    /\ phase = "parsed"
    /\ phase' = "plain"
    /\ Enter(program)
    /\ UNCHANGED <<source, panic, program, optimized, reoptimized, plain>>

\* main with -O, on the same source once the unoptimized program has exited:
\* the optimizer's output is compiled and run.
RunOptimized ==
    /\ phase = "plain"
    /\ block = "exited"
    /\ phase' = "opt"
    /\ \E q \in optimize(program) :
          /\ optimized' = q
          /\ Enter(q)
    /\ plain' = [tape |-> tape, current_cell |-> current_cell, stdout |-> stdout,
                 stderr |-> stderr, exit_code |-> exit_code]
    /\ UNCHANGED <<source, panic, program, reoptimized>>

\* The instructions one run may execute.
StepLimit == IF program \in LongPrograms THEN MaxLongSteps ELSE MaxSteps

\* The instruction the running program is at.
Running(op) ==
    /\ block = "running"
    /\ code # << >>
    /\ Head(code).op = op
    /\ steps < StepLimit

\* Fall through to the next emitted instruction.
Continue ==
    /\ code' = Tail(code)
    /\ steps' = steps + 1
    /\ UNCHANGED <<block, predecessor, freed, exit_code, plain, compiler>>

\* A conditional branch taken to main_error_block.
BranchToError ==
    /\ block' = "error"
    /\ steps' = steps + 1
    /\ UNCHANGED <<code, predecessor, freed, exit_code, plain, compiler>>

\* ExecMoveRight with the tape left at the length it has.
ExecMoveRightKeepsLength ==
    /\ Running("MoveRight")
    /\ current_cell' = current_cell + Head(code).amount
    /\ Continue
    /\ UNCHANGED <<cells, tape, cells_length, input_buffer, multiplier, heap, streams>>

\* moveRight(&cells, &cellsLength, &currentCell, amount); a tape that has to
\* grow is reallocated.
ExecMoveRight ==
    /\ Running("MoveRight")
    /\ LET target == current_cell + Head(code).amount
       IN  /\ current_cell' = target
           /\ cells_length' = Grown(cells_length, target)
           /\ cells' = IF target < cells_length THEN cells ELSE Fresh(heap \ {cells})
           /\ heap' = (heap \ {cells}) \cup {cells'}
    /\ Continue
    /\ UNCHANGED <<tape, input_buffer, multiplier, streams>>

\* ExecMoveLeft with the store of the decremented index placed before the
\* conditional branch.
ExecMoveLeftStoresFirst ==
    /\ Running("MoveLeft")
    /\ LET decrementedCurrentCell == (current_cell - Head(code).amount) % Word
           returnWithError == Negative(decrementedCurrentCell)
       IN  /\ current_cell' = decrementedCurrentCell
           /\ IF returnWithError THEN BranchToError ELSE Continue
    /\ UNCHANGED <<cells, tape, cells_length, input_buffer, multiplier, heap, streams>>

ExecMoveLeft ==
    /\ Running("MoveLeft")
    /\ LET decrementedCurrentCell == (current_cell - Head(code).amount) % Word
           returnWithError == Negative(decrementedCurrentCell)
       IN  IF returnWithError
           THEN BranchToError /\ UNCHANGED current_cell
           ELSE Continue /\ current_cell' = decrementedCurrentCell
    /\ UNCHANGED <<cells, tape, cells_length, input_buffer, multiplier, heap, streams>>

\* Amount with the multiplier never applied.
AmountUnscaled(instruction) == instruction.amount

\* The amount an Increment or Decrement applies: multiplied by the multiplier
\* when it was lowered with has_multiplier set.
Amount(instruction) ==
    IF instruction.has_multiplier
    THEN WrapMul(instruction.amount, multiplier)
    ELSE instruction.amount

ExecIncrement ==
    /\ Running("Increment")
    /\ tape' = Store(tape, current_cell,
                     WrapAdd(CellAt(tape, current_cell), Amount(Head(code))))
    /\ Continue
    /\ UNCHANGED <<cells, cells_length, current_cell, input_buffer, multiplier, heap, streams>>

ExecDecrement ==
    /\ Running("Decrement")
    /\ tape' = Store(tape, current_cell,
                     WrapSub(CellAt(tape, current_cell), Amount(Head(code))))
    /\ Continue
    /\ UNCHANGED <<cells, cells_length, current_cell, input_buffer, multiplier, heap, streams>>

\* putchar, fflush(stdout)
ExecOutput ==
    /\ Running("Output")
    /\ stdout' = Append(stdout, CellAt(tape, current_cell))
    /\ Continue
    /\ UNCHANGED <<memory, stdin, stderr>>

\* input(cells, currentCell, &inputBuffer): waits for a byte, keeps its line
\* buffer in inputBuffer.
ExecInput ==
    /\ Running("Input")
    /\ stdin # << >>
    /\ tape' = Store(tape, current_cell, Head(stdin))
    /\ stdin' = Tail(stdin)
    /\ input_buffer' = IF input_buffer = NULL THEN Fresh(heap) ELSE input_buffer
    /\ heap' = heap \cup {input_buffer'}
    /\ Continue
    /\ UNCHANGED <<cells, cells_length, current_cell, multiplier, stdout, stderr>>

\* ExecLoop with the then block branching to the merge block instead of back
\* to the loop block.
ExecLoopOnce ==
    /\ Running("Loop")
    /\ code' = IF CellAt(tape, current_cell) # 0
               THEN Head(code).instructions \o Tail(code)
               ELSE Tail(code)
    /\ steps' = steps + 1
    /\ UNCHANGED <<block, predecessor, memory, freed, streams, exit_code, plain, compiler>>

\* The loop block: test the current cell, go to the body and back here, or to
\* the merge block.
ExecLoop ==
    /\ Running("Loop")
    /\ code' = IF CellAt(tape, current_cell) # 0
               THEN Head(code).instructions \o code
               ELSE Tail(code)
    /\ steps' = steps + 1
    /\ UNCHANGED <<block, predecessor, memory, freed, streams, exit_code, plain, compiler>>

\* ExecMoveRightUntilZero reporting a failure when the scan leaves the tape.
ExecMoveRightUntilZeroFails ==
    /\ Running("MoveRightUntilZero")
    /\ LET target == ScanRight(tape, current_cell, Head(code).amount)
       IN  IF target < cells_length
           THEN Continue /\ current_cell' = target
           ELSE BranchToError /\ UNCHANGED current_cell
    /\ UNCHANGED <<cells, tape, cells_length, input_buffer, multiplier, heap, streams>>

ExecMoveRightUntilZero ==
    /\ Running("MoveRightUntilZero")
    /\ LET target == ScanRight(tape, current_cell, Head(code).amount)
       IN  /\ current_cell' = target
           /\ cells_length' = Grown(cells_length, target)
           /\ cells' = IF target < cells_length THEN cells ELSE Fresh(heap \ {cells})
           /\ heap' = (heap \ {cells}) \cup {cells'}
    /\ Continue
    /\ UNCHANGED <<tape, input_buffer, multiplier, streams>>

ExecMoveLeftUntilZero ==
    /\ Running("MoveLeftUntilZero")
    /\ LET scan == ScanLeft(tape, current_cell, Head(code).amount)
       IN  /\ current_cell' = scan.current_cell
           /\ IF scan.failed THEN BranchToError ELSE Continue
    /\ UNCHANGED <<cells, tape, cells_length, input_buffer, multiplier, heap, streams>>

ExecSetToZero ==
    /\ Running("SetToZero")
    /\ tape' = Store(tape, current_cell, 0)
    /\ Continue
    /\ UNCHANGED <<cells, cells_length, current_cell, input_buffer, multiplier, heap, streams>>

ExecSetMultiplier ==
    /\ Running("SetMultiplier")
    /\ multiplier' = CellAt(tape, current_cell)
    /\ Continue
    /\ UNCHANGED <<cells, tape, cells_length, current_cell, input_buffer, heap, streams>>

ExecResetMultiplierAndSetToZero ==
    /\ Running("ResetMultiplierAndSetToZero")
    /\ tape' = Store(tape, current_cell, 0)
    /\ Continue
    /\ UNCHANGED <<cells, cells_length, current_cell, input_buffer, multiplier, heap, streams>>

\* ExecMoveValueRight leaving the index at the cell it has added to.
ExecMoveValueRightMoves ==
    /\ Running("MoveValueRight")
    /\ LET target == current_cell + Head(code).amount
       IN  /\ tape' = MoveValue(tape, current_cell, target)
           /\ current_cell' = target
           /\ cells_length' = Grown(cells_length, target)
           /\ cells' = IF target < cells_length THEN cells ELSE Fresh(heap \ {cells})
           /\ heap' = (heap \ {cells}) \cup {cells'}
    /\ Continue
    /\ UNCHANGED <<input_buffer, multiplier, streams>>

ExecMoveValueRight ==
    /\ Running("MoveValueRight")
    /\ LET target == current_cell + Head(code).amount
       IN  /\ tape' = MoveValue(tape, current_cell, target)
           /\ cells_length' = Grown(cells_length, target)
           /\ cells' = IF target < cells_length THEN cells ELSE Fresh(heap \ {cells})
           /\ heap' = (heap \ {cells}) \cup {cells'}
    /\ Continue
    /\ UNCHANGED <<current_cell, input_buffer, multiplier, streams>>

ExecMoveValueLeft ==
    /\ Running("MoveValueLeft")
    /\ IF current_cell < Head(code).amount
       THEN BranchToError /\ UNCHANGED tape
       ELSE /\ Continue
            /\ tape' = MoveValue(tape, current_cell, current_cell - Head(code).amount)
    /\ UNCHANGED <<cells, cells_length, current_cell, input_buffer, multiplier, heap, streams>>

\* The end of the top-level sequence: the unconditional branch to return.
Finish ==
    /\ block = "running"
    /\ code = << >>
    /\ block' = "return"
    /\ predecessor' = "running"
    /\ UNCHANGED <<code, memory, freed, streams, exit_code, steps, plain, compiler>>

\* main_error_block: fputs(errorString, stderr), branch to return.
Error ==
    /\ block = "error"
    /\ stderr' = Append(stderr, ErrorString)
    /\ block' = "return"
    /\ predecessor' = "error"
    /\ UNCHANGED <<code, memory, freed, stdin, stdout, exit_code, steps, plain, compiler>>

\* Return without the second call of free.
ReturnFreesTapeOnly ==
    /\ block = "return"
    /\ freed' = Append(freed, cells)
    /\ heap' = heap \ {cells}
    /\ exit_code' = IF predecessor = "error" THEN 1 ELSE 0
    /\ block' = "exited"
    /\ UNCHANGED <<code, predecessor, cells, tape, cells_length, current_cell,
                   input_buffer, multiplier, streams, steps, plain, compiler>>

\* The return block: the phi, free(cells), free(inputBuffer), ret.
Return ==
    /\ block = "return"
    /\ freed' = freed \o <<cells, input_buffer>>
    /\ heap' = heap \ {cells, input_buffer}
    /\ exit_code' = IF predecessor = "error" THEN 1 ELSE 0
    /\ block' = "exited"
    /\ UNCHANGED <<code, predecessor, cells, tape, cells_length, current_cell,
                   input_buffer, multiplier, streams, steps, plain, compiler>>

Step ==
    \/ ExecMoveRight
    \/ ExecMoveLeft
    \/ ExecIncrement
    \/ ExecDecrement
    \/ ExecOutput
    \/ ExecInput
    \/ ExecLoop
    \/ ExecMoveRightUntilZero
    \/ ExecMoveLeftUntilZero
    \/ ExecSetToZero
    \/ ExecSetMultiplier
    \/ ExecResetMultiplierAndSetToZero
    \/ ExecMoveValueRight
    \/ ExecMoveValueLeft
    \/ Finish
    \/ Error
    \/ Return

Next == RunPlain \/ RunOptimized \/ Step

Spec == Init /\ [][Next]_vars

\* ------------------------------------------------ from the source text onwards

InitParse ==
    /\ source \in Sources
    /\ panic = None
    /\ program = << >>
    /\ optimized = << >>
    /\ reoptimized = << >>
    /\ phase = "source"
    /\ Idle

\* Parse without the unwrap: an error ends the tree and the compiler goes on.
ParseKeepsTree ==
    /\ phase = "source"
    /\ program' = Parser(source).instructions
    /\ phase' = "parsed"
    /\ panic' = None
    /\ source' = << >>
    /\ UNCHANGED <<optimized, reoptimized, machine>>

\* Parser::new(Tokenizer::new(&input)), collected by main, which so gets the
\* whole tree or panics with the first ParseError and gets nothing.
Parse ==
    /\ phase = "source"
    /\ LET parsed == Parser(source)
       IN  /\ program' = parsed.instructions
           /\ phase' = IF parsed.ok THEN "parsed" ELSE "panicked"
           /\ panic' = parsed.error
    /\ source' = << >>
    /\ UNCHANGED <<optimized, reoptimized, machine>>

NextParse == Parse \/ Next

SpecParse == InitParse /\ [][NextParse]_vars

\* ------------------------------------------------- claims about the optimizer

\* The body of the loop that InitOpt wrapped into the program.
SourceBody == program[1].instructions

Basic(body) == \A i \in 1..Len(body) : body[i].op \in Mergeable

\* The relative cell offset before instruction i of a body (after the whole
\* body when i = Len(body) + 1), counted from the moves alone.
RECURSIVE OffsetBefore(_, _)
OffsetBefore(body, i) ==
    IF i = 1
    THEN 0
    ELSE OffsetBefore(body, i - 1)
             + (CASE body[i - 1].op = "MoveRight" -> body[i - 1].amount
                  [] body[i - 1].op = "MoveLeft" -> -body[i - 1].amount
                  [] OTHER -> 0)

Displacement(body) == OffsetBefore(body, Len(body) + 1)

\* The byte delta one pass of a body applies at an offset, modulo 256.
RECURSIVE DeltaUpTo(_, _, _)
DeltaUpTo(body, offset, i) ==
    IF i = 0
    THEN 0
    ELSE LET sofar == DeltaUpTo(body, offset, i - 1)
         IN  IF OffsetBefore(body, i) # offset
             THEN sofar
             ELSE CASE body[i].op = "Increment" -> WrapAdd(sofar, body[i].amount)
                    [] body[i].op = "Decrement" -> WrapSub(sofar, body[i].amount)
                    [] OTHER -> sofar

NetDelta(body, offset) == DeltaUpTo(body, offset, Len(body))

Touched(body) ==
    {OffsetBefore(body, i) : i \in {j \in 1..Len(body) :
                                       body[j].op \in {"Increment", "Decrement"}}}

Unrollable(body) ==
    Basic(body) /\ Displacement(body) = 0 /\ NetDelta(body, 0) = Byte - 1

NonLooping == {"SetToZero", "MoveValueRight", "MoveValueLeft", "WithMultiplier"}

\* C6: the optimizer is idempotent: a second pass over the output of a first
\* pass returns that output unchanged.
C6_Idempotent == phase = "reoptimized" => reoptimized = optimized

C6_Witness ==
    /\ phase = "reoptimized"
    /\ optimized[1].op = "WithMultiplier"
    /\ Len(optimized[1].instructions) > 3
    /\ reoptimized = optimized

\* A rule of optimize_loop still applies to a loop with this body.
Rewritable(body) ==
    IF Len(body) = 1
    THEN Substitute(body) # Loop(body)
    ELSE Unrolled(body) # {Loop(body)}

RECURSIVE Settled(_)
Settled(instructions) ==
    \A i \in 1..Len(instructions) :
        instructions[i].op = "Loop"
            => /\ ~Rewritable(instructions[i].instructions)
               /\ Settled(instructions[i].instructions)

\* C7: the rules are applied bottom-up at every nesting depth: after a pass
\* no Loop node anywhere in the tree has a body that rule 1 or rule 2 rewrites.
C7_NoRewritableLoopRemains == phase = "optimized" => Settled(optimized)

\* C8: a loop with a multi-instruction body becomes a non-looping instruction
\* if and only if its optimized body is made of moves and changes only, has
\* net displacement 0 and a net delta of -1 modulo 256 at offset 0; otherwise
\* it stays a Loop around the optimized body.
C8_UnrolledIffNetMinusOne ==
    (phase = "optimized" /\ Len(SourceBody) > 1)
        => \E body \in optimize(SourceBody) :
              /\ optimized[1].op \in NonLooping <=> Unrollable(body)
              /\ optimized[1].op \notin NonLooping => optimized[1] = Loop(body)

\* The table of rule 1, written out from the specification.
Table(only) ==
    CASE only.op = "MoveRight" -> MoveRightUntilZero(only.amount)
      [] only.op = "MoveLeft" -> MoveLeftUntilZero(only.amount)
      [] only = Increment(1) \/ only = Decrement(1) -> SetToZero
      [] OTHER -> Loop(<<only>>)

\* C9: a loop whose body is one instruction is rewritten by the fixed table:
\* MoveRight(n) to MoveRightUntilZero(n), MoveLeft(n) to MoveLeftUntilZero(n),
\* Increment(1) and Decrement(1) to SetToZero, and anything else stays a
\* one-instruction Loop.
C9_SingleInstructionTable ==
    (phase = "optimized" /\ Len(SourceBody) = 1)
        => optimized = <<Table(SourceBody[1])>>

C9_Witness ==
    /\ phase = "optimized"
    /\ program = <<Loop(<<Decrement(1)>>)>>
    /\ optimized = <<SetToZero>>

\* C10: a loop that is unrolled is rewritten by the offsets other than 0 that
\* its body touches: none gives SetToZero; exactly one, with a net delta of +1
\* modulo 256, gives MoveValueRight(offset) or MoveValueLeft(|offset|); every
\* other case gives WithMultiplier.
C10_ClassifiedByTouchedOffsets ==
    (phase = "optimized" /\ Len(SourceBody) > 1 /\ optimized[1].op \in NonLooping)
        => LET others == Touched(SourceBody) \ {0}
           IN  IF others = {}
               THEN optimized[1] = SetToZero
               ELSE IF \E c \in others : others = {c} /\ NetDelta(SourceBody, c) = 1
               THEN \E c \in others :
                       optimized[1] = IF c > 0 THEN MoveValueRight(c)
                                               ELSE MoveValueLeft(-c)
               ELSE optimized[1].op = "WithMultiplier"

\* The offsets at which a body changes a cell, in the order it visits them.
RECURSIVE VisitsFrom(_, _)
VisitsFrom(body, i) ==
    IF i > Len(body)
    THEN << >>
    ELSE (IF body[i].op \in {"Increment", "Decrement"}
          THEN <<OffsetBefore(body, i)>>
          ELSE << >>) \o VisitsFrom(body, i + 1)

Visits(body) == VisitsFrom(body, 1)

Ascending(offsets) ==
    \A i \in 1..(Len(offsets) - 1) : offsets[i] < offsets[i + 1]

\* C11: the body generated for a WithMultiplier visits the touched offsets in
\* ascending order of offset, so the optimizer's output is a function of its
\* input: every run of the optimizer on the same loop produces the same
\* WithMultiplier.
C11_AscendingAndDeterministic ==
    (phase = "optimized" /\ optimized[1].op = "WithMultiplier")
        => /\ Ascending(Visits(optimized[1].instructions))
           /\ optimize(program) = {optimized}

\* C12: every WithMultiplier body the optimizer generates has net pointer
\* displacement 0, also when some touched offset has a net delta of 0.
C12_BodyReturnsToOrigin ==
    (phase = "optimized" /\ optimized[1].op = "WithMultiplier")
        => Displacement(optimized[1].instructions) = 0

\* ------------------------------------------- claims about the generated program

\* Every loop of the instructions, at any depth, has an unrollable body.
RECURSIVE LoopsUnrollable(_)
LoopsUnrollable(instructions) ==
    \A i \in 1..Len(instructions) :
        instructions[i].op = "Loop"
            => /\ Unrollable(instructions[i].instructions)
               /\ LoopsUnrollable(instructions[i].instructions)

\* Both the unoptimized and the optimized program have run to their exit.
BothExited == phase = "opt" /\ block = "exited"

\* C1: for a program whose loops are all unrollable, the unoptimized and the
\* optimized program end with the same tape, the same cell index and the same
\* output.
C1_SameFinalState ==
    (BothExited /\ LoopsUnrollable(program))
        => /\ tape = plain.tape
           /\ current_cell = plain.current_cell
           /\ stdout = plain.stdout

\* C2: the optimized program reaches the error block if and only if the
\* unoptimized program does, so both exit with the same code.
C2_SameExitCode ==
    BothExited
        => /\ exit_code = plain.exit_code
           /\ stderr = plain.stderr

\* The running program is about to move left from cell 0.
LeftwardAtZero ==
    /\ block = "running"
    /\ code # << >>
    /\ current_cell = 0
    /\ \/ Head(code).op \in {"MoveLeft", "MoveValueLeft"}
       \/ Head(code).op = "MoveLeftUntilZero" /\ CellAt(tape, 0) # 0

\* C3: a leftward move attempted from cell 0 by MoveLeft, by MoveLeftUntilZero
\* on a non-zero cell or by MoveValueLeft goes to the error block, which
\* writes the diagnostic, once, and the program then exits with code 1.
C3_UnderflowFaults ==
    [][/\ LeftwardAtZero => block' = "error"
       /\ block = "error" => (block' = "return" /\ stderr' = <<ErrorString>>)
       /\ (block = "return" /\ predecessor = "error")
              => (block' = "exited" /\ exit_code' = 1 /\ stderr' = <<ErrorString>>)]_vars

C3_Witness ==
    /\ block = "exited"
    /\ exit_code = 1
    /\ stderr = <<ErrorString>>
    /\ current_cell = 0
    /\ Head(code).op = "MoveLeftUntilZero"

\* C4: a run that ends has entered the return block once, from the running
\* program or from the error block and not both; the tape buffer and the input
\* buffer have each been passed to free once and nothing stays allocated; the
\* exit value is 0 after normal completion and 1 after the error block.
C4_ReleasedOnceAndExitValue ==
    block = "exited"
        => /\ freed = <<cells, input_buffer>>
           /\ cells # NULL
           /\ cells # input_buffer
           /\ heap = {}
           /\ \/ predecessor = "running" /\ code = << >> /\ stderr = << >> /\ exit_code = 0
              \/ predecessor = "error" /\ code # << >> /\ stderr = <<ErrorString>>
                    /\ exit_code = 1

C4_Witness ==
    /\ block = "exited"
    /\ predecessor = "error"
    /\ input_buffer # NULL
    /\ freed = <<cells, input_buffer>>
    /\ exit_code = 1

\* C5: a fault is terminal: the branch to the error block changes neither the
\* tape nor the output, and a faulting MoveLeft does not store the decremented
\* index; from then on no instruction executes, tape, index and output stay as
\* they are, and the only successors are the error block and the return block.
C5_FaultIsTerminal ==
    [][/\ (block = "running" /\ block' = "error")
              => /\ tape' = tape
                 /\ stdout' = stdout
                 /\ Head(code).op = "MoveLeft" => current_cell' = current_cell
       /\ block \in {"error", "return"}
              => /\ tape' = tape
                 /\ current_cell' = current_cell
                 /\ stdout' = stdout
                 /\ code' = code
                 /\ steps' = steps
       /\ block = "error" => block' = "return"
       /\ (block = "return" /\ predecessor = "error") => block' = "exited"]_vars

C5_Witness ==
    /\ block = "return"
    /\ predecessor = "error"
    /\ Head(code).op = "MoveLeft"
    /\ tape # << >>
    /\ stdout # << >>

\* The program is this setup followed by one loop with this body.
SetupAndLoop(start, neighbour, value, body) ==
    program = Setup(start, neighbour, value) \o <<Loop(body)>>

\* The optimized program has run to its exit.
OptimizedExited == phase = "opt" /\ block = "exited"

\* C13: the loop that per pass takes 1 from the origin, adds 2 at offset +1
\* and 3 at offset +2, entered with the origin at c, leaves after optimization
\* and execution the origin at 0, the cell at +1 increased by 2c mod 256, the
\* cell at +2 increased by 3c mod 256 and the pointer at the origin; in general
\* every offset a WithMultiplier body changes by n per pass ends changed by
\* n * c mod 256.
C13_ScaledByOrigin ==
    OptimizedExited
        => \A start \in 0..MaxStart, neighbour \in {0, Byte - 1}, c \in ByteSamples :
              /\ SetupAndLoop(start, neighbour, c, ScaleBody)
                    => /\ optimized[Len(optimized)].op = "WithMultiplier"
                       /\ exit_code = 0
                       /\ current_cell = start
                       /\ CellAt(tape, start) = 0
                       /\ CellAt(tape, start + 1) = (neighbour + 2 * c) % Byte
                       /\ CellAt(tape, start + 2) = (3 * c) % Byte
              /\ \A b \in ScaleBodies :
                    SetupAndLoop(start, neighbour, c, b)
                        => /\ current_cell = start
                           /\ CellAt(tape, start) = 0
                           /\ CellAt(tape, start + 1)
                                 = WrapAdd(neighbour, WrapMul(NetDelta(b, 1), c))
                           /\ CellAt(tape, start + 2) = WrapMul(NetDelta(b, 2), c)

C13_Witness ==
    /\ OptimizedExited
    /\ SetupAndLoop(1, Byte - 1, 86, ScaleBody)
    /\ tape = (2 :> 171) @@ (3 :> 2)
    /\ current_cell = 1

\* C14: a loop that each pass takes 1 from the current cell and adds 1 to one
\* neighbour, entered with the current cell at c and the neighbour at n,
\* becomes the single instruction MoveValueRight or MoveValueLeft, and running
\* it leaves the source cell at 0, the neighbour at (n + c) mod 256 and the
\* cell index where it was before the loop.
C14_MoveValue ==
    OptimizedExited
        => \A n \in ByteSamples, c \in ByteSamples :
              /\ \A start \in 0..MaxStart, b \in MoveRightBodies :
                    SetupAndLoop(start, n, c, b)
                        => /\ optimized = Setup(start, n, c) \o <<MoveValueRight(1)>>
                           /\ exit_code = 0
                           /\ current_cell = start
                           /\ CellAt(tape, start) = 0
                           /\ CellAt(tape, start + 1) = (n + c) % Byte
              /\ \A b \in MoveLeftBodies :
                    program = SetupLeft(n, c) \o <<Loop(b)>>
                        => /\ optimized = SetupLeft(n, c) \o <<MoveValueLeft(1)>>
                           /\ exit_code = 0
                           /\ current_cell = 1
                           /\ CellAt(tape, 1) = 0
                           /\ CellAt(tape, 0) = (n + c) % Byte

C14_Witness ==
    /\ OptimizedExited
    /\ program = SetupLeft(128, Byte - 1) \o <<Loop(<<MoveLeft(1), Increment(1),
                                                       MoveRight(1), Decrement(1)>>)>>
    /\ optimized[Len(optimized)] = MoveValueLeft(1)
    /\ tape = (0 :> 127)
    /\ current_cell = 1

\* The program is the setup of ZeroingPrograms followed by one of the two loops.
Zeroing == program \in ZeroingPrograms

\* C15: Loop[Decrement(1)] and Loop[Increment(1)] both become SetToZero, and
\* from every value 0..255 of the current cell the unoptimized loop ends, the
\* incrementing one by wrapping through 255, within 255 passes, with the cell
\* at 0 and every other cell and the index as they were, which is the state
\* SetToZero leaves.
C15_SetToZeroEquivalence ==
    Zeroing
        => /\ steps <= Len(program) + 2 * (Byte - 1)
           /\ phase = "opt" => optimized[Len(optimized)] = SetToZero
           /\ block = "exited"
                 => /\ exit_code = 0
                    /\ current_cell = 0
                    /\ tape = (1 :> Byte - 1)
           /\ BothExited => (tape = plain.tape /\ current_cell = plain.current_cell)

C15_Witness ==
    /\ BothExited
    /\ program = Setup(0, Byte - 1, 1) \o <<Loop(<<Increment(1)>>)>>
    /\ optimized = Setup(0, Byte - 1, 1) \o <<SetToZero>>
    /\ tape = (1 :> Byte - 1)
    /\ plain.tape = tape

\* The instruction about to run lies between a SetMultiplier that has run and
\* its ResetMultiplierAndSetToZero: a region holds moves and changes only.
RECURSIVE RegionOpen(_)
RegionOpen(instructions) ==
    IF instructions = << >>
    THEN FALSE
    ELSE IF Head(instructions).op \in Mergeable
    THEN RegionOpen(Tail(instructions))
    ELSE Head(instructions).op = "ResetMultiplierAndSetToZero"

\* C16: the scale context never leaks: an Increment or Decrement of n is
\* multiplied by the scale register only inside an open WithMultiplier region;
\* in a Loop's body and in a sibling after the end of a region it changes its
\* cell by exactly n mod 256.
C16_ScaleDoesNotLeak ==
    [][(/\ block = "running"
        /\ code # << >>
        /\ Head(code).op \in {"Increment", "Decrement"}
        /\ code' = Tail(code))
          => LET n == Head(code).amount
                 by == IF RegionOpen(code) THEN WrapMul(n, multiplier) ELSE n
                 before == CellAt(tape, current_cell)
             IN  CellAt(tape', current_cell)
                   = IF Head(code).op = "Increment" THEN WrapAdd(before, by)
                                                    ELSE WrapSub(before, by)]_vars

C16_Witness ==
    /\ phase = "opt"
    /\ block = "running"
    /\ multiplier = 2
    /\ code # << >>
    /\ Head(code) = Emitted(Decrement(4), FALSE)
    /\ CellAt(tape, current_cell) = 4

\* C17: while the generated program runs the cell index is below the tape
\* length: it starts with index 0 and length 256, a MoveRight or a
\* MoveRightUntilZero that passes the length grows the tape, and the base
\* pointer and length every later instruction uses are the grown ones, so
\* every cell written lies inside the live buffer.
C17_IndexInsideTape ==
    block = "running"
        => /\ current_cell < cells_length
           /\ steps = 0 => (current_cell = 0 /\ cells_length = InitialLength)
           /\ cells_length >= InitialLength
           /\ cells \in heap
           /\ \A i \in DOMAIN tape : i < cells_length

C17_Witness ==
    /\ phase = "opt"
    /\ block = "running"
    /\ Len(optimized) > 1
    /\ optimized[2] = MoveRightUntilZero(InitialLength)
    /\ code # << >>
    /\ Head(code).op = "Output"
    /\ current_cell = InitialLength
    /\ cells_length = InitialLength + 1
    /\ tape = (0 :> 1) @@ (InitialLength :> 3)

\* The instruction tree written back as one item per token run: a Loop is an
\* item for its start, the items of its body and an item for its end.
RECURSIVE Flat(_)
Flat(instructions) ==
    IF instructions = << >>
    THEN << >>
    ELSE LET instruction == Head(instructions)
         IN  (IF instruction.op = "Loop"
              THEN <<[op |-> "LoopStart", amount |-> 0]>>
                       \o Flat(instruction.instructions)
                       \o <<[op |-> "LoopEnd", amount |-> 0]>>
              ELSE <<[op |-> instruction.op, amount |-> instruction.amount]>>)
                 \o Flat(Tail(instructions))

\* The positions at which a maximal run of identical move or change tokens,
\* or a token of another kind, starts.
RunStarts(tokens) ==
    {i \in 1..Len(tokens) :
        i = 1 \/ tokens[i] # tokens[i - 1] \/ tokens[i] \notin Mergeable}

\* The item the run starting at position i merges into.
RunItem(tokens, i) ==
    LET later == {j \in RunStarts(tokens) : j > i}
        k == IF later = {}
             THEN Len(tokens) - i + 1
             ELSE (CHOOSE j \in later : \A l \in later : j <= l) - i
    IN  [op |-> tokens[i],
         amount |-> CASE tokens[i] \in {"MoveRight", "MoveLeft"} -> k
                      [] tokens[i] \in {"Increment", "Decrement"} -> k % Byte
                      [] OTHER -> 0]

MergedInto(tokens, instructions) ==
    LET starts == RunStarts(tokens)
        flat == Flat(instructions)
    IN  /\ Len(flat) = Cardinality(starts)
        /\ \A i \in starts :
              flat[Cardinality({j \in starts : j <= i})] = RunItem(tokens, i)

\* C18: the parser merges each maximal run of k '>' or '<' tokens into one
\* MoveRight(k) or MoveLeft(k) and each maximal run of k '+' or '-' tokens
\* into one Increment(k mod 256) or Decrement(k mod 256); the source "+++."
\* becomes [Increment(3), Output], also after optimization, and running it
\* writes one byte of value 3 and exits with 0.
C18_RunsMerged ==
    [][/\ (phase = "source" /\ phase' = "parsed")
              => MergedInto(TokenTypes(Tokenizer(source)), program')
       /\ (phase = "source" /\ source = <<"+", "+", "+", ".">>)
              => (phase' = "parsed" /\ program' = <<Increment(3), Output>>)
       /\ (program = <<Increment(3), Output>> /\ block = "return")
              => /\ phase = "opt" => optimized = program
                 /\ block' = "exited"
                 /\ stdout' = <<3>>
                 /\ exit_code' = 0]_vars

C18_Witness ==
    /\ phase = "opt"
    /\ program = <<Increment(3), Output>>
    /\ optimized = program
    /\ block = "exited"
    /\ stdout = <<3>>
    /\ exit_code = 0

\* C19: MoveLeft(n) executed at index i faults if and only if n > i, and
\* otherwise sets the index to i - n: the subtraction in the machine word
\* followed by the signed test against 0 decides exactly that for every i and
\* n below half the word range.
C19_MoveLeftFaultsIffBeyond ==
    [][(/\ block = "running"
        /\ code # << >>
        /\ Head(code).op = "MoveLeft"
        /\ steps' = steps + 1
        /\ current_cell < HalfWord
        /\ Head(code).amount < HalfWord)
          => IF Head(code).amount > current_cell
             THEN block' = "error" /\ current_cell' = current_cell
             ELSE /\ block' = "running"
                  /\ current_cell' = current_cell - Head(code).amount
                  /\ code' = Tail(code)]_vars

C19_Witness ==
    /\ program = <<MoveRight(HalfWord - 2), MoveLeft(HalfWord - 1), Output>>
    /\ block = "error"
    /\ current_cell = HalfWord - 2

Leftward == {"MoveLeft", "MoveLeftUntilZero", "MoveValueLeft"}

\* Some instruction of the tree, at any depth, is one of ops.
RECURSIVE Contains(_, _)
Contains(instructions, ops) ==
    \E i \in 1..Len(instructions) :
        \/ instructions[i].op \in ops
        \/ Contains(instructions[i].instructions, ops)

\* The instructions the running program was generated from.
Compiled == IF phase = "opt" THEN optimized ELSE program

\* C20: the error block is entered only from a MoveLeft, a MoveLeftUntilZero
\* or a MoveValueLeft: a program whose instruction tree holds none of the
\* three never reaches it, and when it ends it exits with code 0.
C20_OnlyLeftwardFaults ==
    /\ block = "error" => Head(code).op \in Leftward
    /\ (phase \in {"plain", "opt"} /\ ~Contains(Compiled, Leftward))
          => /\ block # "error"
             /\ predecessor # "error"
             /\ stderr = << >>
             /\ block = "exited" => exit_code = 0

C20_Witness ==
    /\ phase = "opt"
    /\ ~Contains(optimized, Leftward)
    /\ Contains(optimized, {"MoveRightUntilZero"})
    /\ block = "exited"
    /\ exit_code = 0
    /\ current_cell >= InitialLength

\* The running program is at the header test of a loop.
AtHeader == block = "running" /\ code # << >> /\ Head(code).op = "Loop"

\* C21: a Loop is a retest-at-top loop: its body is entered only from a header
\* test that finds the current cell non-zero, with the header as what follows
\* the body; what follows the loop is entered only from a header test that
\* finds the cell 0; neither changes the tape or the index; and a loop with an
\* empty body whose header finds a non-zero cell stays at its header, so the
\* program never reaches the return block.
C21_RetestAtTop ==
    [][/\ (AtHeader /\ steps' = steps + 1)
              => /\ IF CellAt(tape, current_cell) # 0
                    THEN code' = Head(code).instructions \o code
                    ELSE code' = Tail(code)
                 /\ tape' = tape
                 /\ current_cell' = current_cell
                 /\ block' = "running"
       /\ (AtHeader /\ Head(code).instructions = << >> /\ CellAt(tape, current_cell) # 0)
              => /\ AtHeader'
                 /\ code' = code
                 /\ tape' = tape
                 /\ current_cell' = current_cell]_vars

C21_Witness ==
    /\ AtHeader
    /\ Head(code).instructions = << >>
    /\ CellAt(tape, current_cell) = 2
    /\ current_cell = 1
    /\ steps = MaxSteps

\* The program is some instructions without a loop followed by one loop whose
\* body is a single move.
ScanProgram ==
    /\ program # << >>
    /\ LET last == program[Len(program)]
       IN  /\ last.op = "Loop"
           /\ Len(last.instructions) = 1
           /\ last.instructions[1].op \in {"MoveRight", "MoveLeft"}
    /\ ~Contains(SubSeq(program, 1, Len(program) - 1), {"Loop"})

\* The index the loop of a ScanProgram is entered at, when nothing before it
\* has faulted.
ScanStart == Displacement(SubSeq(program, 1, Len(program) - 1))

\* C22: the scan rewrites preserve behaviour: Loop[MoveRight(n)] and
\* MoveRightUntilZero(n) end with the same tape at the same index, the first
\* of i, i + n, i + 2n, ... whose cell is 0; Loop[MoveLeft(n)] and
\* MoveLeftUntilZero(n) end at the same index, the first of i, i - n, ... whose
\* cell is 0, or both fault.
C22_ScansPreserveBehaviour ==
    (BothExited /\ ScanProgram)
        => LET move == program[Len(program)].instructions[1]
               n == move.amount
               right == move.op = "MoveRight"
               between == IF right THEN ScanStart..(current_cell - 1)
                                   ELSE (current_cell + 1)..ScanStart
           IN  /\ optimized[Len(optimized)]
                     = IF right THEN MoveRightUntilZero(n) ELSE MoveLeftUntilZero(n)
               /\ tape = plain.tape
               /\ stdout = plain.stdout
               /\ exit_code = plain.exit_code
               /\ right => exit_code = 0
               /\ exit_code = 0
                     => /\ current_cell = plain.current_cell
                        /\ CellAt(tape, current_cell) = 0
                        /\ (current_cell - ScanStart) % n = 0
                        /\ \A j \in between :
                              (j - ScanStart) % n = 0 => CellAt(tape, j) # 0

C22_Witness ==
    /\ BothExited
    /\ ScanProgram
    /\ optimized[Len(optimized)] = MoveRightUntilZero(2)
    /\ tape = (0 :> 1) @@ (2 :> 1) @@ (3 :> 1)
    /\ current_cell = 4
    /\ plain.current_cell = 4

\* How many loops are open after the first p characters of a text: the '['
\* among them less the ']'.
Depth(text, p) ==
    Cardinality({q \in 1..p : text[q] = "["})
        - Cardinality({q \in 1..p : text[q] = "]"})

\* The ']' that are met outside any loop, and the '[' that are still open at
\* the end of the text.
Stray(text) == {p \in 1..Len(text) : Depth(text, p) < 0}

Unclosed(text) ==
    {p \in 1..Len(text) :
        /\ text[p] = "["
        /\ \A q \in p..Len(text) : Depth(text, q) >= Depth(text, p)}

WellBracketed(text) == Stray(text) = {} /\ Unclosed(text) = {}

\* The error a text is to be refused with: the first ']' outside any loop if
\* there is one, else the innermost '[' that the end of the text leaves open.
Mismatch(text) ==
    LET stray == Stray(text)
        unclosed == Unclosed(text)
    IN  CASE stray # {} ->
                UnexpectedLoopEnd(
                    SourceLoc(text, CHOOSE p \in stray : \A q \in stray : p <= q))
          [] stray = {} /\ unclosed # {} ->
                ExpectedLoopEnd(
                    SourceLoc(text, CHOOSE p \in unclosed : \A q \in unclosed : q <= p))
          [] OTHER -> None

\* The Loop instructions of a tree, at any depth.
Loops(instructions) ==
    Cardinality({i \in 1..Len(Flat(instructions)) :
                    Flat(instructions)[i].op = "LoopStart"})

\* C23: bracket mismatches are fatal at parse time and never yield a tree: a
\* ']' met outside any loop gives UnexpectedLoopEnd with its location, the end
\* of the input inside an open '[' gives ExpectedLoopEnd with the location of
\* that '[', the parser panics on either, leaving no instructions, and nothing
\* is optimized, compiled or run afterwards; a well-bracketed text is parsed,
\* with one Loop for each '[' ... ']' pair whose body is the instructions
\* between them.
C23_MismatchesAreFatal ==
    [][/\ phase = "source"
              => /\ phase' = (IF WellBracketed(source) THEN "parsed" ELSE "panicked")
                 /\ panic' = Mismatch(source)
                 /\ Stray(source) # {} => panic'.kind = "UnexpectedLoopEnd"
                 /\ (Stray(source) = {} /\ Unclosed(source) # {})
                        => /\ panic'.kind = "ExpectedLoopEnd"
                           /\ \E p \in Unclosed(source) :
                                 /\ source[p] = "["
                                 /\ panic'.loc = SourceLoc(source, p)
                 /\ phase' = "panicked" => program' = << >>
                 /\ phase' = "parsed"
                        => /\ MergedInto(TokenTypes(Tokenizer(source)), program')
                           /\ Loops(program')
                                  = Cardinality({p \in 1..Len(source) : source[p] = "["})
                 /\ source = <<"+", "\n", " ", "[", "-", "\n", "[", ">", "]", "<">>
                        => panic' = ExpectedLoopEnd([line |-> 2, col |-> 2])
                 /\ source = <<"[", "]", "\n", "\n", "x", "+", "]", "[">>
                        => panic' = UnexpectedLoopEnd([line |-> 3, col |-> 3])
                 /\ source = <<"[", "[", "\n", "[", "]", "+">>
                        => panic' = ExpectedLoopEnd([line |-> 1, col |-> 2])
                 /\ source = <<"+", "[", "[", "-", "]", "]", ".">>
                        => program' = <<Increment(1),
                                        Loop(<<Loop(<<Decrement(1)>>)>>), Output>>
       /\ phase = "panicked" => UNCHANGED vars]_vars

C23_Witness ==
    /\ phase = "panicked"
    /\ panic = ExpectedLoopEnd([line |-> 2, col |-> 2])
    /\ program = << >>
    /\ block = "idle"

\* The bodies of the WithMultiplier instructions of a tree, at any depth.
RECURSIVE Multipliers(_)
Multipliers(instructions) ==
    UNION {CASE instructions[i].op = "WithMultiplier" ->
                    {instructions[i].instructions}
             [] instructions[i].op = "Loop" ->
                    Multipliers(instructions[i].instructions)
             [] OTHER -> {} : i \in 1..Len(instructions)}

\* No instruction of the body leaves the pointer and the cells as they are.
Effective(body) ==
    \A i \in 1..Len(body) :
        /\ body[i].op \in {"MoveRight", "MoveLeft"} => body[i].amount >= 1
        /\ body[i].op \in {"Increment", "Decrement"} => body[i].amount \in 1..(Byte - 1)

\* C24: no generated WithMultiplier body contains a no-op: every MoveRight or
\* MoveLeft in it has an amount of at least 1 and every Increment or Decrement
\* an amount in 1..255, and an offset whose net delta is 0 modulo 256 gives no
\* instruction: the body changes no cell at it.
C24_NoNoOpInBody ==
    /\ phase \in {"optimized", "reoptimized"}
           => \A body \in Multipliers(optimized) : Effective(body)
    /\ phase = "reoptimized"
           => \A body \in Multipliers(reoptimized) : Effective(body)
    /\ (phase = "optimized" /\ optimized[1].op = "WithMultiplier")
           => \A offset \in Touched(SourceBody) :
                 NetDelta(SourceBody, offset) = 0
                     => offset \notin Touched(optimized[1].instructions)

C24_Witness ==
    /\ phase = "optimized"
    /\ 2 \in Touched(SourceBody)
    /\ NetDelta(SourceBody, 2) = 0
    /\ optimized = <<WithMultiplier(<<MoveRight(1), Increment(2), MoveLeft(1)>>)>>

====
